---- MODULE Spec2Model ----
(***************************************************************************)
(* FolderForge: export of a directory tree to a text tree listing          *)
(* (write_tree) and re-creation of a tree from such a listing              *)
(* (create_structure_from_file), in the two versions of the program:       *)
(* src/folderforge.py and src/start.py.                                    *)
(*                                                                         *)
(* Text is a sequence of one-character strings.  The box-drawing glyphs    *)
(* are written by code point (BoxV is U+2502, NBSP is U+00A0).             *)
(***************************************************************************)
EXTENDS Integers, Sequences, FiniteSets, TLC

VARIABLES
    impl,           \* which program runs: "folderforge" or "start"
    root_kind,      \* what main's root argument names: "dir", "file" or "missing"
    command,        \* args.command of the last call of main ("none": no call yet)
    stdout,         \* the error message that main printed ("none": no message)
    exit_status,    \* <<>> while no call of main has ended, else <<status>>
    written,        \* the structure file exists
    tree,           \* the source directory: set of [path, is_dir], paths relative to root
    patterns,       \* write_tree's ignore_patterns (a list of patterns)
    max_depth,      \* write_tree's max_depth: <<>> is None, <<k>> is the integer k
    emitted,        \* what _tree did, in order: directories scanned and lines emitted
    artifact,       \* content of the structure file (text)
    edited,         \* the structure file was edited by hand after the export
    strip_root,     \* create_structure_from_file's strip_root
    pc,             \* "shell", "exported", "create", "done", "error", "exited"
    lines,          \* create_structure_from_file: lines of the structure file
    first_line_is_root, \* start.py only
    i,              \* index of the next line of the loop (0-based, as enumerate)
    base_dir,       \* path relative to dest_root
    dirs_stack,     \* list of paths relative to dest_root
    fs,             \* the destination: set of [path, is_dir], paths relative to dest_root
    data,           \* the files of the destination that hold content (their paths)
    run,            \* 1 in the first call of create_structure_from_file, 2 in the second
    outcome         \* the branch the last loop iteration took

vars == << impl, root_kind, command, stdout, exit_status, written, tree, patterns, max_depth, emitted, artifact, edited, strip_root,
           pc, lines, first_line_is_root, i, base_dir, dirs_stack, fs, data, run, outcome >>

(* ------------------------------ bounds -------------------------------- *)
MaxEntries == 3
MaxDepthArg == 2

(* ---------------------------- characters ------------------------------ *)
BoxV == "u2502"
BoxT == "u251c"
BoxL == "u2514"
BoxH == "u2500"
SP == " "
NBSP == "u00a0"
SL == "/"
NL == "\n"
STAR == "*"
QM == "?"

Implementations == {"folderforge", "start"}

\* Path(args.root): a directory, a file, or nothing at all
RootKinds == {"dir", "file", "missing"}

\* Code points of the characters that names are compared by.
Ord(c) ==
    CASE c = "B" -> 66
      [] c = "a" -> 97
      [] c = "b" -> 98
      [] c = "r" -> 114
      [] c = "t" -> 116
      [] c = "x" -> 120
      [] c = "z" -> 122
      [] c = "." -> 46
      [] OTHER -> 0

\* str.lower() on one character
LowerChar(c) == IF c = "B" THEN "b" ELSE c

Lower(s) == [k \in 1..Len(s) |-> LowerChar(s[k])]

\* s < t for two strings, as Python compares them: by code point, a proper
\* prefix first.
RECURSIVE StrLess(_, _)
StrLess(s, t) ==
    IF t = <<>> THEN FALSE
    ELSE IF s = <<>> THEN TRUE
    ELSE IF Ord(Head(s)) # Ord(Head(t)) THEN Ord(Head(s)) < Ord(Head(t))
    ELSE StrLess(Tail(s), Tail(t))

(* ------------------------- the source directory ----------------------- *)
Names == { <<"a">>, <<"B">> }
\* a name that only files of the source directory bear
FileNames == { <<"z", ".", "t", "x", "t">> }
RootName == <<"r">>

Entry(p, d) == [path |-> p, is_dir |-> d]

DirPaths(t) == { <<>> } \cup { e.path : e \in { x \in t : x.is_dir } }

\* every tree that has one entry more than t
Extend(t) ==
    { t \cup { Entry(Append(q[1], q[2]), d) } :
        q \in { r \in DirPaths(t) \X Names :
                  \A e \in t : e.path # Append(r[1], r[2]) },
        d \in BOOLEAN }
    \cup
    { t \cup { Entry(Append(q[1], q[2]), FALSE) } :
        q \in { r \in DirPaths(t) \X FileNames :
                  \A e \in t : e.path # Append(r[1], r[2]) } }

RECURSIVE TreesUpTo(_)
TreesUpTo(n) ==
    IF n = 0 THEN { {} }
    ELSE LET S == TreesUpTo(n - 1) IN S \cup UNION { Extend(t) : t \in S }

EntryName(e) == e.path[Len(e.path)]

IsPrefixPath(p, q) == Len(p) <= Len(q) /\ SubSeq(q, 1, Len(p)) = p

\* dir_path.iterdir()
iterdir(t, dir_path) ==
    { e \in t : Len(e.path) = Len(dir_path) + 1 /\ IsPrefixPath(dir_path, e.path) }

(* ------------------------------- fnmatch ------------------------------ *)
\* fnmatch.fnmatch on a POSIX system, for patterns of literals, * and ?
RECURSIVE fnmatch(_, _)
fnmatch(s, p) ==
    IF p = <<>> THEN s = <<>>
    ELSE IF Head(p) = STAR
         THEN fnmatch(s, Tail(p)) \/ (s # <<>> /\ fnmatch(Tail(s), p))
    ELSE IF Head(p) = QM
         THEN s # <<>> /\ fnmatch(Tail(s), Tail(p))
    ELSE s # <<>> /\ Head(s) = Head(p) /\ fnmatch(Tail(s), Tail(p))

\* PurePath.as_posix() of a relative path
RECURSIVE as_posix(_)
as_posix(p) ==
    IF p = <<>> THEN <<>>
    ELSE IF Len(p) = 1 THEN p[1]
    ELSE p[1] \o <<SL>> \o as_posix(Tail(p))

\* str.rstrip("/")
RECURSIVE rstrip_slash(_)
rstrip_slash(s) ==
    IF s # <<>> /\ s[Len(s)] = SL THEN rstrip_slash(SubSeq(s, 1, Len(s) - 1)) ELSE s

\* DirMatches with the test of the root-relative path left out
DirMatchesNameOnly(name, rel, p) == fnmatch(name, p)

DirMatches(name, rel, p) == fnmatch(name, p) \/ fnmatch(rel, rstrip_slash(p))

should_ignore_dir(dir_path, pats) ==
    IF pats = <<>> THEN FALSE
    ELSE \E k \in 1..Len(pats) :
            DirMatches(dir_path[Len(dir_path)], as_posix(dir_path), pats[k])

(* ------------------------------ write_tree ---------------------------- *)
\* KeyLess with the files before the directories
KeyLessFilesFirst(e1, e2) ==
    LET k1 == IF e1.is_dir THEN 1 ELSE 0
        k2 == IF e2.is_dir THEN 1 ELSE 0
    IN  IF k1 # k2 THEN k1 < k2
        ELSE StrLess(Lower(EntryName(e1)), Lower(EntryName(e2)))

\* KeyLess with the names compared as they are, not lower-cased
KeyLessCaseSensitive(e1, e2) ==
    LET k1 == IF e1.is_dir THEN 0 ELSE 1
        k2 == IF e2.is_dir THEN 0 ELSE 1
    IN  IF k1 # k2 THEN k1 < k2
        ELSE StrLess(EntryName(e1), EntryName(e2))

\* key=lambda e: (not e.is_dir(), e.name.lower())
KeyLess(e1, e2) ==
    LET k1 == IF e1.is_dir THEN 0 ELSE 1
        k2 == IF e2.is_dir THEN 0 ELSE 1
    IN  IF k1 # k2 THEN k1 < k2
        ELSE StrLess(Lower(EntryName(e1)), Lower(EntryName(e2)))

\* sorted(S, key=...); the names of one directory have distinct keys, so the
\* order in which iterdir yields them does not show.
RECURSIVE sorted(_)
sorted(S) ==
    IF S = {} THEN <<>>
    ELSE LET m == CHOOSE e \in S : \A o \in S \ {e} : ~KeyLess(o, e)
         IN  <<m>> \o sorted(S \ {m})

Connector(k, n) == IF k = n - 1 THEN <<BoxL, BoxH, SP>> ELSE <<BoxT, BoxH, SP>>

\* folderforge.py writes its columns with plain spaces; start.py's literals hold
\* a no-break space (U+00A0) as their second and as their third character.
Extension(im, k, n) ==
    IF im = "folderforge"
    THEN (IF k < n - 1 THEN <<BoxV, SP, SP>> ELSE <<SP, SP, SP>>)
    ELSE (IF k = n - 1 THEN <<SP, NBSP, SP>> ELSE <<BoxV, SP, NBSP>>)

\* DepthCut with >= for >
DepthCutEarly(md, current_depth) == md # <<>> /\ current_depth >= md[1]

\* if max_depth is not None and current_depth > max_depth: return []
DepthCut(md, current_depth) == md # <<>> /\ current_depth > md[1]

ScanEvent(dir_path) == [kind |-> "scan", entry |-> dir_path, text |-> <<>>]
LineEvent(p, line) == [kind |-> "line", entry |-> p, text |-> line]

\* ctx holds what _tree closes over: root's content, ignore_patterns, max_depth
\* (and which of the two programs it is).  k is the loop's i, 0-based.
RECURSIVE _tree(_, _, _, _), TreeLoop(_, _, _, _, _)
_tree(ctx, dir_path, prefix, current_depth) ==
    IF DepthCut(ctx.max_depth, current_depth) THEN <<>>
    ELSE LET entries ==
                sorted({ e \in iterdir(ctx.tree, dir_path) :
                           ~(e.is_dir /\ should_ignore_dir(e.path, ctx.patterns)) })
         IN  <<ScanEvent(dir_path)>> \o TreeLoop(ctx, entries, 0, prefix, current_depth)

TreeLoop(ctx, entries, k, prefix, current_depth) ==
    IF k >= Len(entries) THEN <<>>
    ELSE LET entry == entries[k + 1]
             n == Len(entries)
         IN  IF entry.is_dir /\ should_ignore_dir(entry.path, ctx.patterns)
             THEN TreeLoop(ctx, entries, k + 1, prefix, current_depth)
             ELSE LET line == prefix \o Connector(k, n) \o EntryName(entry)
                                \o (IF entry.is_dir THEN <<SL>> ELSE <<>>)
                  IN  <<LineEvent(entry.path, line)>>
                      \o (IF entry.is_dir
                          THEN _tree(ctx, entry.path, prefix \o Extension(ctx.impl, k, n),
                                     current_depth + 1)
                          ELSE <<>>)
                      \o TreeLoop(ctx, entries, k + 1, prefix, current_depth)

\* "\n".join(ls)
RECURSIVE Join(_)
Join(ls) ==
    IF ls = <<>> THEN <<>>
    ELSE IF Len(ls) = 1 THEN ls[1]
    ELSE ls[1] \o <<NL>> \o Join(Tail(ls))

\* ChildrenWritten with >= for >
ChildrenWrittenAtZero(md) == md = <<>> \/ md[1] >= 0

\* lines 65 and 66 of write_tree
RootLineWritten(md) == md = <<>> \/ md[1] >= 0
ChildrenWritten(md) == md = <<>> \/ md[1] > 0

LinesOf(ev) == LET ls == SelectSeq(ev, LAMBDA x : x.kind = "line")
               IN  [k \in 1..Len(ls) |-> ls[k].text]

\* write_tree: the events of _tree and the text written to output_file
write_tree(ctx) ==
    LET ev == IF ChildrenWritten(ctx.max_depth) THEN _tree(ctx, <<>>, <<>>, 0) ELSE <<>>
        ls == (IF RootLineWritten(ctx.max_depth) THEN << RootName \o <<SL>> >> ELSE <<>>)
              \o LinesOf(ev)
    IN  [events |-> ev, text |-> Join(ls)]

Ctx(t, pats, md, im) == [tree |-> t, patterns |-> pats, max_depth |-> md, impl |-> im]

(* ----------------------------- str methods ---------------------------- *)
\* str.isspace() on the characters of the model
IsSpace(c) == c \in {SP, NBSP}

\* str.rstrip()
RECURSIVE rstrip(_)
rstrip(s) ==
    IF s # <<>> /\ IsSpace(s[Len(s)]) THEN rstrip(SubSeq(s, 1, Len(s) - 1)) ELSE s

RECURSIVE lstrip(_)
lstrip(s) == IF s # <<>> /\ IsSpace(Head(s)) THEN lstrip(Tail(s)) ELSE s

\* str.strip()
strip(s) == lstrip(rstrip(s))

endswith_slash(s) == s # <<>> /\ s[Len(s)] = SL

Contains(s, c) == \E k \in 1..Len(s) : s[k] = c

\* index of the first c in s (s contains c)
IndexOf(s, c) == CHOOSE k \in 1..Len(s) : s[k] = c /\ \A j \in 1..(k - 1) : s[j] # c

Drop(s, n) == SubSeq(s, n + 1, Len(s))

StartsWith(s, p) == Len(p) <= Len(s) /\ SubSeq(s, 1, Len(p)) = p

\* s.count(c) for one character
RECURSIVE Count(_, _)
Count(s, c) ==
    IF s = <<>> THEN 0 ELSE (IF Head(s) = c THEN 1 ELSE 0) + Count(Tail(s), c)

\* s.count("  "): occurrences that do not overlap, from the left
RECURSIVE CountPairs(_)
CountPairs(s) ==
    IF Len(s) < 2 THEN 0
    ELSE IF s[1] = SP /\ s[2] = SP THEN 1 + CountPairs(Drop(s, 2))
    ELSE CountPairs(Tail(s))

\* s.replace("│  ", "   ")
RECURSIVE ReplaceColumns(_)
ReplaceColumns(s) ==
    IF s = <<>> THEN <<>>
    ELSE IF StartsWith(s, <<BoxV, SP, SP>>)
         THEN <<SP, SP, SP>> \o ReplaceColumns(Drop(s, 3))
    ELSE <<Head(s)>> \o ReplaceColumns(Tail(s))

\* "\n".join(...) written to a file and read back: str.splitlines()
RECURSIVE SplitLines(_)
SplitLines(s) ==
    IF s = <<>> THEN <<>>
    ELSE IF ~Contains(s, NL) THEN <<s>>
    ELSE LET k == IndexOf(s, NL)
         IN  <<SubSeq(s, 1, k - 1)>> \o SplitLines(Drop(s, k))

(* --------------------- folderforge.py: the inline parser -------------- *)
\* depth = prefix.count("│") + prefix.count("  ") // 2
DepthOfPrefix(prefix) == Count(prefix, BoxV) + (CountPairs(prefix) \div 2)

\* lines 85-102 of create_structure_from_file
InlineParse(raw_line) ==
    LET line == rstrip(raw_line)
        is_dir == endswith_slash(line)
        line2 == rstrip_slash(line)
    IN  IF line = <<>>
        THEN [blank |-> TRUE, is_dir |-> FALSE, depth |-> 0, name |-> <<>>]
        ELSE IF Contains(line2, BoxH)
        THEN LET k == IndexOf(line2, BoxH)
             IN  [blank |-> FALSE, is_dir |-> is_dir,
                  depth |-> DepthOfPrefix(SubSeq(line2, 1, k - 1)),
                  name |-> strip(Drop(line2, k))]
        ELSE [blank |-> FALSE, is_dir |-> is_dir, depth |-> 0, name |-> line2]

(* ------------------------- start.py: parse_line ----------------------- *)
\* the alternatives of LINE_RE's conn group, in order
Connectors ==
    << <<BoxT, BoxH, BoxH, SP>>, <<BoxL, BoxH, BoxH, SP>>,
       <<BoxT, BoxH, SP>>, <<BoxL, BoxH, SP>> >>

IsColumnAt(s) == StartsWith(s, <<BoxV, SP, SP>>) \/ StartsWith(s, <<SP, SP, SP>>)

\* the most repetitions (?:│  |   )* can take at the start of s
RECURSIVE MaxColumns(_)
MaxColumns(s) == IF IsColumnAt(s) THEN 1 + MaxColumns(Drop(s, 3)) ELSE 0

\* (?P<name>[^/]+?)(?P<slash>/?)$ matches all of r
NameSlashMatches(r) ==
    /\ r # <<>>
    /\ LET body == IF endswith_slash(r) THEN SubSeq(r, 1, Len(r) - 1) ELSE r
       IN  body # <<>> /\ ~Contains(body, SL)

NoMatch == [matched |-> FALSE, prefix |-> <<>>, conn |-> <<>>, name |-> <<>>, slash |-> <<>>]

MatchOf(prefix, conn, r) ==
    [matched |-> TRUE, prefix |-> prefix, conn |-> conn,
     name |-> IF endswith_slash(r) THEN SubSeq(r, 1, Len(r) - 1) ELSE r,
     slash |-> IF endswith_slash(r) THEN <<SL>> ELSE <<>>]

\* LINE_RE.match(s), backtracking from k prefix columns down to none; within
\* one k the connector alternatives come first, then no connector.
RECURSIVE LineReFrom(_, _)
LineReFrom(s, k) ==
    IF k < 0 THEN NoMatch
    ELSE LET prefix == SubSeq(s, 1, 3 * k)
             rest == Drop(s, 3 * k)
             hits == { c \in 1..Len(Connectors) :
                         StartsWith(rest, Connectors[c])
                         /\ NameSlashMatches(Drop(rest, Len(Connectors[c]))) }
         IN  IF hits # {}
             THEN LET c == CHOOSE x \in hits : \A y \in hits : x <= y
                  IN  MatchOf(prefix, Connectors[c], Drop(rest, Len(Connectors[c])))
             ELSE IF NameSlashMatches(rest) THEN MatchOf(prefix, <<>>, rest)
             ELSE LineReFrom(s, k - 1)

LINE_RE(s) == LineReFrom(s, MaxColumns(s))

\* the characters of the model that [a-zA-Z0-9_-] accepts
WordChars == {"a", "b", "B", "r", "t", "x", "z"}

\* re.match(r'^[a-zA-Z0-9_-]+/?$', s)
FallbackMatches(s) ==
    LET body == IF endswith_slash(s) THEN SubSeq(s, 1, Len(s) - 1) ELSE s
    IN  body # <<>> /\ \A k \in 1..Len(body) : body[k] \in WordChars

\* depth = 0 if is_root_line else len(normalized_prefix) // 3
DepthOfColumns(is_root_line, prefix) ==
    IF is_root_line THEN 0 ELSE Len(ReplaceColumns(prefix)) \div 3

None == [some |-> FALSE, is_root_line |-> FALSE, depth |-> 0, name |-> <<>>, is_dir |-> FALSE]

Parsed(r, d, n, isd) ==
    [some |-> TRUE, is_root_line |-> r, depth |-> d, name |-> n, is_dir |-> isd]

parse_line(line) ==
    IF strip(line) = <<>> THEN None
    ELSE LET m == LINE_RE(line)
         IN  IF ~m.matched
             THEN (IF ~FallbackMatches(strip(line)) THEN None
                   ELSE Parsed(TRUE, 0, rstrip_slash(strip(line)), endswith_slash(strip(line))))
             ELSE LET name == strip(m.name)
                      is_dir == m.slash # <<>>
                      is_root_line == m.conn = <<>> /\ m.prefix = <<>>
                  IN  Parsed(is_root_line, DepthOfColumns(is_root_line, m.prefix),
                             IF is_dir /\ endswith_slash(name)
                             THEN SubSeq(name, 1, Len(name) - 1) ELSE name,
                             is_dir)

(* --------------------------- the destination -------------------------- *)
\* The destination is a set of entries whose paths are relative to dest_root
\* and resolved: a path that leaves dest_root starts with `..` components.
DotDot == <<".", ".">>

\* what the operating system makes of a path whose components all exist:
\* `..` takes the last component away, and stays where there is none to take
RECURSIVE ResolveFrom(_, _)
ResolveFrom(p, acc) ==
    IF p = <<>> THEN acc
    ELSE IF Head(p) = DotDot /\ acc # <<>> /\ acc[Len(acc)] # DotDot
         THEN ResolveFrom(Tail(p), SubSeq(acc, 1, Len(acc) - 1))
    ELSE ResolveFrom(Tail(p), Append(acc, Head(p)))

Resolve(p) == ResolveFrom(p, <<>>)

\* dest_root and the directories above it are there before the program runs
IsAbove(p) == \A k \in 1..Len(p) : p[k] = DotDot

IsDirIn(f, p) == IsAbove(Resolve(p)) \/ Entry(Resolve(p), TRUE) \in f
IsFileIn(f, p) == Entry(Resolve(p), FALSE) \in f

\* name.split("/") without its empty and "." components: what pathlib keeps
RECURSIVE Components(_)
Components(name) ==
    LET k == IF Contains(name, SL) THEN IndexOf(name, SL) ELSE Len(name) + 1
        first == SubSeq(name, 1, k - 1)
        kept == IF first = <<>> \/ first = <<".">> THEN <<>> ELSE <<first>>
    IN  IF name = <<>> THEN <<>>
        ELSE IF k > Len(name) THEN kept
        ELSE kept \o Components(Drop(name, k))

\* parent / name
PathJoin(parent, name) == parent \o Components(name)

\* Path.parent
ParentOf(p) == IF p = <<>> THEN <<>> ELSE SubSeq(p, 1, Len(p) - 1)

\* Path.mkdir(parents=True, exist_ok=True): raises when p or one of its
\* ancestors is a file, creates nothing then
mkdir(f, p) ==
    IF \E k \in 1..Len(p) : IsFileIn(f, SubSeq(p, 1, k))
    THEN [fs |-> f, err |-> TRUE]
    ELSE [fs |-> f \cup { Entry(q, TRUE) :
                            q \in { r \in { Resolve(SubSeq(p, 1, k)) : k \in 1..Len(p) } :
                                      ~IsAbove(r) } },
          err |-> FALSE]

\* with open(target, "a"): pass -- raises when target is a directory, makes an
\* empty file when there is none, leaves the content of a file that is there
open_a(f, dt, p) ==
    IF IsDirIn(f, p) THEN [fs |-> f, data |-> dt, err |-> TRUE]
    ELSE [fs |-> f \cup { Entry(Resolve(p), FALSE) }, data |-> dt, err |-> FALSE]

(* ------------------- create_structure_from_file: one line ------------- *)
Locals(b, st, f, dt, o) ==
    [base_dir |-> b, dirs_stack |-> st, fs |-> f, data |-> dt, outcome |-> o]

Raised(lv) == Locals(lv.base_dir, lv.dirs_stack, lv.fs, lv.data, "error")

\* DepthUnreachable letting through a line one level too deep
DepthUnreachableLate(depth, stack) == depth > Len(stack) + 1

\* if depth > len(dirs_stack): continue
DepthUnreachable(depth, stack) == depth > Len(stack)

\* elif depth < len(dirs_stack): dirs_stack = dirs_stack[:depth]
Truncated(depth, stack) == IF depth < Len(stack) THEN SubSeq(stack, 1, depth) ELSE stack

\* the root line's branch of both programs: base_dir = dest_root / name, mkdir, push
RootBranch(lv, name) ==
    LET b == PathJoin(<<>>, name)
        m == mkdir(lv.fs, b)
    IN  IF m.err THEN Raised(lv)
        ELSE Locals(b, Append(lv.dirs_stack, b), m.fs, lv.data, "root")

\* the tail of the loop body of both programs, from target on
CreateTarget(lv, stack, target, depth, is_dir) ==
    IF is_dir
    THEN LET m == mkdir(lv.fs, target)
         IN  IF m.err THEN Raised(lv)
             ELSE Locals(lv.base_dir, Append(Truncated(depth, stack), target), m.fs, lv.data, "dir")
    ELSE LET m == mkdir(lv.fs, ParentOf(target))
             o == open_a(m.fs, lv.data, target)
         IN  IF m.err \/ o.err THEN Raised(lv)
             ELSE Locals(lv.base_dir, stack, o.fs, o.data, "file")

\* folderforge.py: if i == 0 and not strip_root and is_dir
IsRootLineFF(idx, sr, is_dir) == idx = 0 /\ ~sr /\ is_dir

\* folderforge.py: parent = base_dir if depth == 0 or not dirs_stack else dirs_stack[-1]
ParentFF(b, stack, depth) ==
    IF depth = 0 \/ stack = <<>> THEN b ELSE stack[Len(stack)]

\* folderforge.py, one iteration of the loop over the lines
FolderforgeStep(lv, raw_line, idx, sr) ==
    LET p == InlineParse(raw_line)
    IN  IF p.blank THEN Locals(lv.base_dir, lv.dirs_stack, lv.fs, lv.data, "blank")
        ELSE IF IsRootLineFF(idx, sr, p.is_dir) THEN RootBranch(lv, p.name)
        ELSE IF DepthUnreachable(p.depth, lv.dirs_stack)
             THEN Locals(lv.base_dir, lv.dirs_stack, lv.fs, lv.data, "unreachable")
        ELSE LET stack == Truncated(p.depth, lv.dirs_stack)
                 parent == ParentFF(lv.base_dir, stack, p.depth)
             IN  CreateTarget(lv, stack, PathJoin(parent, p.name), p.depth, p.is_dir)

\* start.py: if is_root_line and first_line_is_root
IsRootLineStart(is_root_line, first_is_root) == is_root_line /\ first_is_root

\* start.py: parent = base_dir if depth == 0 else dirs_stack[-1]
\* (dirs_stack[-1] of an empty list raises IndexError: see StartStep)
ParentStart(b, stack, depth) == IF depth = 0 THEN b ELSE stack[Len(stack)]

\* start.py, one iteration of the loop over the lines
StartStep(lv, raw, first_is_root, sr) ==
    LET p == parse_line(raw)
    IN  IF ~p.some THEN Locals(lv.base_dir, lv.dirs_stack, lv.fs, lv.data, "blank")
        ELSE IF IsRootLineStart(p.is_root_line, first_is_root)
             THEN (IF ~sr THEN RootBranch(lv, p.name)
                   ELSE Locals(lv.base_dir, lv.dirs_stack, lv.fs, lv.data, "root_stripped"))
        ELSE IF DepthUnreachable(p.depth, lv.dirs_stack)
             THEN Locals(lv.base_dir, lv.dirs_stack, lv.fs, lv.data, "unreachable")
        ELSE LET stack == Truncated(p.depth, lv.dirs_stack)
                 parent == ParentStart(lv.base_dir, stack, p.depth)
             IN  IF p.depth # 0 /\ stack = <<>> THEN Raised(lv)
                 ELSE CreateTarget(lv, stack, PathJoin(parent, p.name), p.depth, p.is_dir)

\* start.py, lines 111-117
FirstLineIsRoot(ls) == ls # <<>> /\ parse_line(ls[1]).some /\ parse_line(ls[1]).is_root_line

(* ------------------------------- inputs ------------------------------- *)
PatternPool == { <<"a">>, <<"B", SL>>, <<"a", SL, "B">>, <<STAR>> }
PatternLists == { <<>> } \cup { <<p>> : p \in PatternPool }
DepthArgs == { <<>> } \cup { <<k>> : k \in (-1)..MaxDepthArg }

\* lines a hand edit puts into the structure file: an empty line, a line of
\* spaces, a line whose column has two characters, a line two columns deep, a
\* line one column deep, a bare name with and without its slash, and the
\* directory name `..`
EditLines ==
    { <<>>,
      <<SP, SP>>,
      <<BoxV, SP, BoxL, BoxH, SP, "x">>,
      <<BoxV, SP, SP, BoxV, SP, SP, BoxL, BoxH, SP, "x">>,
      <<BoxV, SP, SP, BoxL, BoxH, SP, "x">>,
      <<"x", SL>>,
      <<"x">>,
      <<".", ".", SL>> }

InsertAt(ls, k, l) == SubSeq(ls, 1, k) \o <<l>> \o Drop(ls, k)

(* ------------------------------ the machine --------------------------- *)
Init ==
    /\ impl \in Implementations
    /\ root_kind \in RootKinds
    /\ tree \in TreesUpTo(MaxEntries)
    /\ root_kind # "dir" => tree = {}
    /\ command = "none"
    /\ stdout = "none"
    /\ exit_status = <<>>
    /\ written = FALSE
    /\ patterns \in PatternLists
    /\ max_depth \in DepthArgs
    /\ emitted = <<>>
    /\ artifact = <<>>
    /\ edited = FALSE
    /\ strip_root = FALSE
    /\ pc = "shell"
    /\ lines = <<>>
    /\ first_line_is_root = FALSE
    /\ i = 0
    /\ base_dir = <<>>
    /\ dirs_stack = <<>>
    /\ fs = {}
    /\ data = {}
    /\ run = 1
    /\ outcome = "none"

\* main, command export, root_dir.is_dir():
\* write_tree(root, output_file, ignore_patterns, verbose, max_depth), return
Export ==
    /\ pc = "shell"
    /\ root_kind = "dir"
    /\ LET w == write_tree(Ctx(tree, patterns, max_depth, impl))
       IN  /\ emitted' = w.events
           /\ artifact' = w.text
    /\ written' = TRUE
    /\ command' = "export"
    /\ exit_status' = <<0>>
    /\ pc' = "exported"
    /\ UNCHANGED << impl, root_kind, stdout, tree, patterns, max_depth, edited, strip_root, lines,
                    first_line_is_root, i, base_dir, dirs_stack, fs, data, run, outcome >>

\* main, command export, not root_dir.is_dir(): print the message, return
ExportNotADirectory ==
    /\ pc = "shell"
    /\ root_kind # "dir"
    /\ command' = "export"
    /\ stdout' = "not a valid directory"
    /\ exit_status' = <<0>>
    /\ pc' = "exited"
    /\ UNCHANGED << impl, root_kind, written, tree, patterns, max_depth, emitted, artifact,
                    edited, strip_root, lines, first_line_is_root, i, base_dir, dirs_stack,
                    fs, data, run, outcome >>

\* one line put into the structure file by hand
HandEdit ==
    /\ pc = "exported"
    /\ ~edited
    /\ \E l \in EditLines : \E k \in 0..Len(SplitLines(artifact)) :
          artifact' = Join(InsertAt(SplitLines(artifact), k, l))
    /\ edited' = TRUE
    /\ UNCHANGED << impl, root_kind, command, stdout, exit_status, written, tree, patterns, max_depth, emitted, strip_root, pc, lines,
                    first_line_is_root, i, base_dir, dirs_stack, fs, data, run, outcome >>

\* create_structure_from_file(file_path, dest_root, strip_root, verbose), up to the loop
CreateBegin ==
    /\ pc = "exported"
    /\ \E s \in BOOLEAN : strip_root' = s
    /\ lines' = SplitLines(artifact)
    /\ first_line_is_root' = (impl = "start" /\ FirstLineIsRoot(SplitLines(artifact)))
    /\ base_dir' = <<>>
    /\ dirs_stack' = <<>>
    /\ i' = 0
    /\ pc' = "create"
    /\ UNCHANGED << impl, root_kind, command, stdout, exit_status, written, tree, patterns,
                    max_depth, emitted, artifact, edited, fs, data, run, outcome >>

\* main, command create.  folderforge.py: when file_path is not a file, print
\* the message and return; else dest_root.mkdir and create_structure_from_file,
\* up to the loop.  start.py: main has no branch for the command and returns.
MainCreate ==
    /\ pc \in {"shell", "exported"}
    /\ command' = "create"
    /\ IF impl = "start"
       THEN /\ exit_status' = <<0>>
            /\ pc' = "exited"
            /\ UNCHANGED << stdout, strip_root, lines, first_line_is_root, i >>
       ELSE IF ~written
       THEN /\ stdout' = "not a valid file"
            /\ exit_status' = <<0>>
            /\ pc' = "exited"
            /\ UNCHANGED << strip_root, lines, first_line_is_root, i >>
       ELSE /\ \E s \in BOOLEAN : strip_root' = s
            /\ lines' = SplitLines(artifact)
            /\ first_line_is_root' = FALSE
            /\ i' = 0
            /\ exit_status' = <<>>
            /\ pc' = "create"
            /\ UNCHANGED stdout
    /\ UNCHANGED << impl, root_kind, written, tree, patterns, max_depth, emitted, artifact,
                    edited, base_dir, dirs_stack, fs, data, run, outcome >>

Assign(lv) ==
    /\ base_dir' = lv.base_dir
    /\ dirs_stack' = lv.dirs_stack
    /\ fs' = lv.fs
    /\ data' = lv.data
    /\ outcome' = lv.outcome
    /\ pc' = IF lv.outcome = "error" THEN "error" ELSE "create"
    /\ i' = i + 1
    /\ exit_status' = IF lv.outcome = "error" /\ command = "create" THEN <<1>> ELSE exit_status
    /\ UNCHANGED << impl, root_kind, command, stdout, written, tree, patterns, max_depth, emitted, artifact, edited,
                    strip_root, lines, first_line_is_root, run >>

\* folderforge.py: the loop body for lines[i]
FolderforgeLine ==
    /\ pc = "create"
    /\ impl = "folderforge"
    /\ i < Len(lines)
    /\ Assign(FolderforgeStep(Locals(base_dir, dirs_stack, fs, data, outcome),
                              lines[i + 1], i, strip_root))

\* start.py: the loop body for lines[i]
StartLine ==
    /\ pc = "create"
    /\ impl = "start"
    /\ i < Len(lines)
    /\ Assign(StartStep(Locals(base_dir, dirs_stack, fs, data, outcome),
                        lines[i + 1], first_line_is_root, strip_root))

\* the loop is over
CreateEnd ==
    /\ pc = "create"
    /\ i = Len(lines)
    /\ pc' = "done"
    /\ exit_status' = IF command = "create" THEN <<0>> ELSE exit_status
    /\ UNCHANGED << impl, root_kind, command, stdout, written, tree, patterns, max_depth, emitted, artifact, edited, strip_root,
                    lines, first_line_is_root, i, base_dir, dirs_stack, fs, data, run, outcome >>

\* content is written into the files that the first call made
UserWrite ==
    /\ pc \in {"done", "error"}
    /\ run = 1
    /\ data = {}
    /\ \E e \in fs : ~e.is_dir
    /\ data' = { e.path : e \in { x \in fs : ~x.is_dir } }
    /\ UNCHANGED << impl, root_kind, command, stdout, exit_status, written, tree, patterns, max_depth, emitted, artifact, edited, strip_root,
                    pc, lines, first_line_is_root, i, base_dir, dirs_stack, fs, run, outcome >>

\* create_structure_from_file called a second time with the same file_path,
\* dest_root and strip_root, up to the loop
CreateAgain ==
    /\ pc \in {"done", "error"}
    /\ run = 1
    /\ run' = 2
    /\ lines' = SplitLines(artifact)
    /\ first_line_is_root' = (impl = "start" /\ FirstLineIsRoot(SplitLines(artifact)))
    /\ base_dir' = <<>>
    /\ dirs_stack' = <<>>
    /\ i' = 0
    /\ outcome' = "none"
    /\ pc' = "create"
    /\ exit_status' = IF command = "create" THEN <<>> ELSE exit_status
    /\ UNCHANGED << impl, root_kind, command, stdout, written, tree, patterns, max_depth, emitted, artifact, edited, strip_root,
                    fs, data >>

Next ==
    \/ Export \/ ExportNotADirectory \/ CreateBegin \/ MainCreate
    \/ FolderforgeLine \/ StartLine \/ CreateEnd \/ UserWrite \/ CreateAgain

Spec == Init /\ [][Next]_vars

\* the structure file is a full export (no ignore patterns, no depth limit)
\* that may get one line put in by hand, and create_structure_from_file is
\* called on it once
InitEdit == Init /\ root_kind = "dir" /\ patterns = <<>> /\ max_depth = <<>>

NextEdit ==
    Export \/ HandEdit \/ CreateBegin \/ FolderforgeLine \/ StartLine \/ CreateEnd

SpecEdit == InitEdit /\ [][NextEdit]_vars

(* ------------------ create_structure_from_file as a whole ------------- *)
\* the loop over ls from line idx on; an exception ends it
RECURSIVE DecodeFrom(_, _, _, _, _, _)
DecodeFrom(im, ls, sr, first_is_root, idx, lv) ==
    IF idx >= Len(ls) \/ lv.outcome = "error" THEN lv
    ELSE DecodeFrom(im, ls, sr, first_is_root, idx + 1,
                    IF im = "folderforge"
                    THEN FolderforgeStep(lv, ls[idx + 1], idx, sr)
                    ELSE StartStep(lv, ls[idx + 1], first_is_root, sr))

Decode(im, ls, sr) ==
    DecodeFrom(im, ls, sr, im = "start" /\ FirstLineIsRoot(ls), 0,
               Locals(<<>>, <<>>, {}, {}, "none"))

(* ------------------- the format of the structure file ------------------ *)
\* The grammar of a line as the format states it: columns of three characters
\* (a continuation glyph and two spaces, or three spaces), a connector, a name,
\* and a slash after the name of a directory.
NameChars == {"a", "b", "B", "r", "t", "x", "z", "."}

IsName(s) == s # <<>> /\ \A k \in 1..Len(s) : s[k] \in NameChars

RECURSIVE GrammarColumns(_)
GrammarColumns(s) ==
    IF Len(s) >= 3 /\ s[1] \in {BoxV, SP} /\ s[2] = SP /\ s[3] = SP
    THEN 1 + GrammarColumns(Drop(s, 3))
    ELSE 0

GrammarEntryLine(s) ==
    LET rest == Drop(s, 3 * GrammarColumns(s))
    IN  /\ Len(rest) >= 4
        /\ rest[1] \in {BoxT, BoxL} /\ rest[2] = BoxH /\ rest[3] = SP
        /\ IsName(rstrip_slash(Drop(rest, 3)))
        /\ Len(Drop(rest, 3)) - Len(rstrip_slash(Drop(rest, 3))) <= 1

GrammarRootLine(s) == endswith_slash(s) /\ IsName(SubSeq(s, 1, Len(s) - 1))

IsBlankLine(s) == \A k \in 1..Len(s) : s[k] = SP

\* the depth the running program parses for a line, and whether it takes the
\* line at index idx for the root line
ParsedDepth(raw) ==
    IF impl = "folderforge" THEN InlineParse(raw).depth ELSE parse_line(raw).depth

ParsedSome(raw) ==
    IF impl = "folderforge" THEN ~InlineParse(raw).blank ELSE parse_line(raw).some

TakenForRoot(raw, idx) ==
    IF impl = "folderforge"
    THEN IsRootLineFF(idx, strip_root, InlineParse(raw).is_dir)
    ELSE IsRootLineStart(parse_line(raw).is_root_line, first_line_is_root)

\* what the destination holds when the tree t was re-created below base
Recreated(t, base) ==
    { Entry(base \o e.path, e.is_dir) : e \in t }
    \cup { Entry(SubSeq(base, 1, k), TRUE) : k \in 1..Len(base) }

FullExport == ~edited /\ patterns = <<>> /\ max_depth = <<>>

(* ------------------------------- claims ------------------------------- *)

\* C1 (round trip): when a tree was exported with no ignore patterns and no
\* depth limit and the structure file is fed to create_structure_from_file with
\* strip_root off on an empty destination, the run ends without an exception
\* and the destination holds rootName/ and below it exactly the paths of the
\* tree, each with its kind.
C1_RoundTrip ==
    (pc \in {"done", "error"} /\ run = 1 /\ FullExport /\ ~strip_root)
        => (pc = "done" /\ fs = Recreated(tree, <<RootName>>))

\* C2 (strip root): with strip_root on and the root line `rootName/` first, the
\* root line creates nothing, pushes no frame and leaves base_dir at the
\* destination root.
C2_StripRootLine ==
    (pc = "create" /\ run = 1 /\ strip_root /\ i = 1 /\ lines[1] = RootName \o <<SL>>)
        => (fs = {} /\ dirs_stack = <<>> /\ base_dir = <<>>)

C3_Corrupt(s) == Contains(s, BoxH) /\ ~GrammarEntryLine(s)

C3_OthersWellFormed(k) ==
    /\ Len(lines) >= 2
    /\ k # 1
    /\ GrammarRootLine(lines[1])
    /\ \A j \in 2..Len(lines) : j # k => GrammarEntryLine(lines[j])

\* C3 (malformed line): in a structure file that is well formed but for one
\* line, whose prefix is not made of three-character columns and a connector,
\* that line creates nothing and leaves dirs_stack and base_dir as they are.
C3_MalformedLineSkipped ==
    [][ (pc = "create" /\ i < Len(lines) /\ C3_Corrupt(lines[i + 1])
            /\ C3_OthersWellFormed(i + 1))
        => (fs' = fs /\ dirs_stack' = dirs_stack /\ base_dir' = base_dir
            /\ pc' = "create") ]_vars

C4_Unreachable(raw, idx) ==
    ParsedSome(raw) /\ ~TakenForRoot(raw, idx) /\ ParsedDepth(raw) > Len(dirs_stack)

\* C4 (unreachable depth): a line that is not taken for the root line and whose
\* parsed depth is greater than the length of dirs_stack is skipped: nothing is
\* created, no exception is raised, dirs_stack and base_dir stay as they are,
\* and the loop goes on with the next line.
C4_UnreachableSkipped ==
    [][ (pc = "create" /\ i < Len(lines) /\ C4_Unreachable(lines[i + 1], i))
        => (fs' = fs /\ dirs_stack' = dirs_stack /\ base_dir' = base_dir
            /\ pc' = "create" /\ i' = i + 1) ]_vars

\* C4 witness: the line just read was deeper than the stack and was skipped.
C4_Witness ==
    /\ pc = "create" /\ i >= 1 /\ outcome = "unreachable"
    /\ C4_Unreachable(lines[i], i - 1)

\* C5 (depth recovery): for a line of n three-character columns, a connector
\* and a name, the running program parses depth n, whichever of the two kinds
\* each column is.
C5_DepthRecovered ==
    pc = "create"
        => \A j \in 1..Len(lines) :
              GrammarEntryLine(lines[j]) => ParsedDepth(lines[j]) = GrammarColumns(lines[j])

C6_NonBlank(ls) == SelectSeq(ls, LAMBDA l : ~IsBlankLine(l))

\* C6 (blank lines): blank lines, wherever they are, do not change what is
\* created: the run over the structure file ends as the run over the same file
\* without its blank lines does.
C6_BlankLinesIgnored ==
    (pc \in {"done", "error"} /\ run = 1)
        => LET ref == Decode(impl, C6_NonBlank(lines), strip_root)
           IN  fs = ref.fs /\ (pc = "error") = (ref.outcome = "error")

\* the lines that _tree emitted, in order
LineEvents == SelectSeq(emitted, LAMBDA x : x.kind = "line")

\* the structure file holds the root line (when one is written) and then the
\* emitted lines
ArtifactIsEmitted ==
    SplitLines(artifact)
        = (IF max_depth = <<>> \/ max_depth[1] >= 0 THEN << RootName \o <<SL>> >> ELSE <<>>)
          \o LinesOf(emitted)

C7_Matches(d) ==
    \E k \in 1..Len(patterns) :
        fnmatch(EntryName(d), patterns[k]) \/ fnmatch(as_posix(d.path), patterns[k])

\* C7 (ignore filtering): when the bare name or the root-relative path of a
\* directory matches one of the ignore patterns, write_tree emits no line for
\* the directory or for anything below it and never scans it; the structure
\* file holds the emitted lines and no others.
C7_IgnoredDirsOmitted ==
    written
        => /\ \A d \in tree :
                (d.is_dir /\ C7_Matches(d))
                    => \A k \in 1..Len(emitted) : ~IsPrefixPath(d.path, emitted[k].entry)
           /\ ~edited => ArtifactIsEmitted

\* C7 witness: an export in which an ignored directory has content and other
\* entries were written.
C7_Witness ==
    /\ pc = "exported"
    /\ LineEvents # <<>>
    /\ \E d \in tree :
          /\ d.is_dir /\ C7_Matches(d)
          /\ \E e \in tree : e # d /\ IsPrefixPath(d.path, e.path)

C8_Depth(e) == Len(e.path) - 1

C8_NonIgnored(e) ==
    \A k \in 1..Len(e.path) :
        Entry(SubSeq(e.path, 1, k), TRUE) \in tree
            => ~should_ignore_dir(SubSeq(e.path, 1, k), patterns)

C8_HasLine(e) == \E k \in 1..Len(LineEvents) : LineEvents[k].entry = e.path

\* C8 (depth cutoff), as amended: with max_depth = k and k >= 1, write_tree
\* emits a line for an entry that is not ignored if and only if the entry's
\* depth is at most k (depth 0 being the root's children); with max_depth = 0
\* it emits no line but the root line.
C8_DepthCutoff ==
    (written /\ max_depth # <<>> /\ max_depth[1] >= 0)
        => /\ \A e \in tree :
                C8_NonIgnored(e)
                    => (C8_HasLine(e) <=> (max_depth[1] >= 1 /\ C8_Depth(e) <= max_depth[1]))
           /\ ~edited => ArtifactIsEmitted

\* C8 as stated: with max_depth = k and k >= 0, a line is emitted for an entry
\* that is not ignored if and only if its depth is at most k, so the root's
\* children are always written.
C8_DepthCutoffAsStated ==
    (written /\ max_depth # <<>> /\ max_depth[1] >= 0)
        => \A e \in tree :
              C8_NonIgnored(e) => (C8_HasLine(e) <=> C8_Depth(e) <= max_depth[1])

\* C8 witness: an export with max_depth = 1 of a tree that has an entry at
\* depth 1, which is written, and one at depth 2, which is not.
C8_Witness ==
    /\ pc = "exported"
    /\ max_depth = <<1>>
    /\ \E e \in tree : C8_NonIgnored(e) /\ C8_Depth(e) = 1 /\ C8_HasLine(e)
    /\ \E e \in tree : C8_NonIgnored(e) /\ C8_Depth(e) = 2 /\ ~C8_HasLine(e)

\* C9 (boundary values of max_depth): with max_depth = 0 the structure file is
\* the root line `rootName/` alone; with a negative max_depth it is empty; with
\* max_depth = None its first line is `rootName/`.
C9_BoundaryDepths ==
    (written /\ ~edited)
        => /\ max_depth = <<0>> => artifact = RootName \o <<SL>>
           /\ (max_depth # <<>> /\ max_depth[1] < 0) => artifact = <<>>
           /\ max_depth = <<>>
                => (SplitLines(artifact) # <<>> /\ SplitLines(artifact)[1] = RootName \o <<SL>>)

\* C9 witness: an export with max_depth = 0 of a root that has children.
C9_Witness == pc = "exported" /\ max_depth = <<0>> /\ tree # {}

C10_IsDir(p) == Entry(p, TRUE) \in tree

C10_Siblings(p, q) == Len(p) = Len(q) /\ ParentOf(p) = ParentOf(q)

C10_NameOf(p) == Lower(p[Len(p)])

\* C10 (order): among the emitted lines, the lines of one directory's children
\* have the sub-directories before the files and each of the two groups in
\* ascending order of the lower-cased name, and the lines below a directory
\* follow its line with no other line in between (depth-first pre-order).
C10_Order ==
    written
        => LET le == LineEvents
           IN  \A x \in 1..Len(le) : \A y \in 1..Len(le) :
                 LET p == le[x].entry
                     q == le[y].entry
                 IN  /\ (x < y /\ C10_Siblings(p, q))
                         => /\ C10_IsDir(p) \/ ~C10_IsDir(q)
                            /\ (C10_IsDir(p) = C10_IsDir(q))
                                 => ~StrLess(C10_NameOf(q), C10_NameOf(p))
                     /\ (x # y /\ IsPrefixPath(p, q))
                         => /\ x < y
                            /\ \A z \in x..y : IsPrefixPath(p, le[z].entry)

\* C10 witness: the directory a, something below it, and then its sibling
\* directory B, whose name sorts before a's unless the case is folded.
C10_Witness ==
    /\ pc = "exported"
    /\ Len(LineEvents) = 3
    /\ LineEvents[1].entry = << <<"a">> >>
    /\ IsPrefixPath(<< <<"a">> >>, LineEvents[2].entry)
    /\ LineEvents[3].entry = << <<"B">> >>
    /\ C10_IsDir(<< <<"B">> >>)

\* the root of the scenario: the directories B and a and the file z.txt
C11_Root ==
    { Entry(<< <<"B">> >>, TRUE), Entry(<< <<"a">> >>, TRUE),
      Entry(<< <<"z", ".", "t", "x", "t">> >>, FALSE) }

C11_Exported ==
    written /\ tree = C11_Root /\ patterns = <<>> /\ ChildrenWritten(max_depth)

\* C11 (strict ordering), as amended: for a root holding exactly the
\* directories B and a and the file z.txt, the lines write_tree emits after the
\* root line are, in this order, `a/`, `B/`, `z.txt`: the directories first, in
\* the order of their lower-cased names, then the file.
C11_FoldedOrder ==
    C11_Exported
        => LinesOf(emitted)
             = << <<BoxT, BoxH, SP, "a", SL>>,
                  <<BoxT, BoxH, SP, "B", SL>>,
                  <<BoxL, BoxH, SP, "z", ".", "t", "x", "t">> >>

\* C11 as stated: for that root the lines after the root line are, in this
\* order, `B/`, `a/`, `z.txt`.
C11_OrderAsStated ==
    C11_Exported
        => LET le == LineEvents
           IN  /\ Len(le) = 3
               /\ le[1].entry = << <<"B">> >>
               /\ le[2].entry = << <<"a">> >>
               /\ le[3].entry = << <<"z", ".", "t", "x", "t">> >>

\* C11 witness: the scenario's root was exported and three lines follow the
\* root line in the structure file.
C11_Witness ==
    /\ pc = "exported" /\ tree = C11_Root /\ patterns = <<>> /\ max_depth = <<>>
    /\ Len(SplitLines(artifact)) = 4
    /\ SplitLines(artifact)[1] = RootName \o <<SL>>

\* C12 (idempotent materialization): in the second call of
\* create_structure_from_file with the same structure file, destination and
\* strip_root, no line raises an exception and no line changes the destination:
\* its paths, their kinds and the content of its files stay as they were.
C12_SecondRunChangesNothing ==
    [][ (pc = "create" /\ run = 2 /\ i < Len(lines))
        => (pc' # "error" /\ fs' = fs /\ data' = data) ]_vars

\* the same for the second calls that follow a first call that raised nothing
C12_SecondRunAfterCompletedRun ==
    [][ (pc = "create" /\ run = 2 /\ i < Len(lines)
            /\ Decode(impl, lines, strip_root).outcome # "error")
        => (pc' # "error" /\ fs' = fs /\ data' = data) ]_vars

\* the emitted line of the entry at path q comes after the line at index x
C13_LaterSibling(le, q) ==
    \E x \in 1..Len(le) : \E y \in 1..Len(le) :
        le[x].entry = q /\ x < y /\ C10_Siblings(q, le[y].entry)

\* the columns the format gives the line of the entry at path p: one for each
\* ancestor below the root, from the outermost on
RECURSIVE C13_Columns(_, _, _)
C13_Columns(le, p, j) ==
    IF j >= Len(p) THEN <<>>
    ELSE (IF C13_LaterSibling(le, SubSeq(p, 1, j)) THEN <<BoxV, SP, SP>> ELSE <<SP, SP, SP>>)
         \o C13_Columns(le, p, j + 1)

\* C13 (fixed-width prefix): every line that write_tree emits for an entry at
\* depth d (0 for the root's children) is d columns of three characters, then
\* the connector; column j is the continuation glyph and two spaces when the
\* entry's ancestor at level j has a later emitted sibling, and three spaces
\* when it has none; so the connector starts at character 3 * d + 1, also when
\* ignore patterns remove siblings.
C13_FixedWidthPrefix ==
    written
        => LET le == LineEvents
           IN  \A x \in 1..Len(le) :
                 LET p == le[x].entry
                     d == Len(p) - 1
                 IN  /\ Len(le[x].text) > 3 * d
                     /\ SubSeq(le[x].text, 1, 3 * d) = C13_Columns(le, p, 1)
                     /\ le[x].text[3 * d + 1] \in {BoxT, BoxL}

\* the part of C13 that is about the width alone
C13_PrefixWidth ==
    written
        => \A x \in 1..Len(LineEvents) :
              LET t == LineEvents[x].text
                  d == Len(LineEvents[x].entry) - 1
              IN  Len(t) > 3 * d /\ t[3 * d + 1] \in {BoxT, BoxL}
                  /\ \A k \in 1..(3 * d) : t[k] \notin {BoxT, BoxL, BoxH}

\* C14 (export of an invalid root): when main ran the command export on a root
\* that does not exist or is not a directory, it printed the message, ended
\* with a non-zero exit status, and wrote no structure file.
C14_InvalidRootFails ==
    (command = "export" /\ root_kind # "dir" /\ exit_status # <<>>)
        => /\ stdout = "not a valid directory"
           /\ exit_status # <<0>>
           /\ ~written

\* the parts of C14 that are about the message and the structure file
C14_MessageAndNoFile ==
    (command = "export" /\ root_kind # "dir" /\ exit_status # <<>>)
        => (stdout = "not a valid directory" /\ ~written /\ pc = "exited")

\* C15 (create dispatch): a call of main with the command create on a structure
\* file that exists runs create_structure_from_file (it does not return before
\* the loop over the lines, and when it has returned the loop is over and the
\* destination holds what a run of the function over the file makes); a call on
\* a structure file that does not exist ends with a non-zero exit status.
C15_CreateDispatch ==
    /\ (command = "create" /\ written)
          => /\ pc \in {"create", "done", "error"}
             /\ (pc = "done" /\ run = 1)
                   => fs = Decode("folderforge", lines, strip_root).fs
    /\ (command = "create" /\ ~written)
          => (exit_status # <<>> /\ exit_status # <<0>>)

\* the frames of st go up one level at a time: the lowest is the root frame
\* (base) or a directory right below base, and each other frame is a directory
\* right below the frame under it
C16_Chain(st, base) ==
    \A k \in 1..Len(st) :
        IF k = 1
        THEN st[1] = base \/ (st[1] # <<>> /\ ParentOf(st[1]) = base)
        ELSE Len(st[k]) = Len(st[k - 1]) + 1 /\ ParentOf(st[k]) = st[k - 1]

\* C16 (dirs_stack invariant): after every line, of whatever structure file,
\* dirs_stack goes up strictly in depth from bottom to top (the frame at index
\* k is the root frame or a directory one level below the frame at index k - 1,
\* so no two frames have one depth), and no line makes it grow by more than
\* one frame.
C16_StackInvariant ==
    [][ /\ Len(dirs_stack') <= Len(dirs_stack) + 1
        /\ C16_Chain(dirs_stack', base_dir') ]_vars

\* the loop takes its next line for the root line, or moves base_dir
C17_RootStep ==
    /\ pc = "create" /\ i < Len(lines) /\ i' = i + 1
    /\ (outcome' \in {"root", "root_stripped"} \/ base_dir' # base_dir)

\* C17 (single root line): in a run of create_structure_from_file the line that
\* is taken for the root line is the first line that is not blank, so at most
\* one line is; base_dir is assigned with it and never after it, and a later
\* line with no prefix and no connector (a bare name, with or without its
\* slash) neither moves base_dir nor is taken for a root line.
C17_SingleRootLine ==
    [][ C17_RootStep => \A j \in 1..i : strip(lines[j]) = <<>> ]_vars

\* C18 (destination containment): whatever the structure file holds, every
\* directory and file that create_structure_from_file has made lies in
\* dest_root: its resolved path does not leave dest_root through `..`.
C18_Contained ==
    \A e \in fs : e.path # <<>> /\ Head(e.path) # DotDot

\* the branch each line of ls takes in a run of create_structure_from_file on
\* an empty destination, the root branch counting as one whether it strips
RECURSIVE C19_OutcomesFrom(_, _, _, _, _, _)
C19_OutcomesFrom(im, ls, sr, first_is_root, idx, lv) ==
    IF idx >= Len(ls) \/ lv.outcome = "error" THEN <<>>
    ELSE LET nx == IF im = "folderforge"
                   THEN FolderforgeStep(lv, ls[idx + 1], idx, sr)
                   ELSE StartStep(lv, ls[idx + 1], first_is_root, sr)
         IN  <<IF nx.outcome = "root_stripped" THEN "root" ELSE nx.outcome>>
             \o C19_OutcomesFrom(im, ls, sr, first_is_root, idx + 1, nx)

C19_Outcomes(im, ls, sr) ==
    C19_OutcomesFrom(im, ls, sr, im = "start" /\ FirstLineIsRoot(ls), 0,
                     Locals(<<>>, <<>>, {}, {}, "none"))

\* C19 (strip_root changes only the base): for a structure file whose first
\* line is a root line `name/`, what create_structure_from_file makes below
\* dest_root/name with strip_root off is what it makes below dest_root with
\* strip_root on, path for path and kind for kind, and every line takes the
\* same branch (created, skipped as unreachable, blank) in the two runs.
C19_StripRootOnlyMovesBase ==
    (pc = "exported" /\ SplitLines(artifact) # <<>>
        /\ GrammarRootLine(SplitLines(artifact)[1]))
        => LET ls == SplitLines(artifact)
               name == SubSeq(ls[1], 1, Len(ls[1]) - 1)
               kept == Decode(impl, ls, FALSE)
               stripped == Decode(impl, ls, TRUE)
           IN  /\ kept.fs = { Entry(<<name>> \o e.path, e.is_dir) : e \in stripped.fs }
                              \cup { Entry(<<name>>, TRUE) }
               /\ C19_Outcomes(impl, ls, FALSE) = C19_Outcomes(impl, ls, TRUE)

\* the running program parses raw as the line of a file
C20_FileLine(raw) ==
    /\ ParsedSome(raw)
    /\ ~(IF impl = "folderforge" THEN InlineParse(raw).is_dir ELSE parse_line(raw).is_dir)

\* C20 (files never become parents): a file line pushes no frame, so after a
\* file line of depth d dirs_stack has at most d frames; a line of depth d + 1
\* that comes right after a file line of depth d is skipped as unreachable; and
\* nothing is ever made at a path below the path of a file.
C20_FilesNeverParents ==
    [][ (pc = "create" /\ i < Len(lines) /\ pc' = "create")
        => /\ C20_FileLine(lines[i + 1])
                => Len(dirs_stack') <= ParsedDepth(lines[i + 1])
           /\ (i >= 1 /\ C20_FileLine(lines[i]) /\ outcome # "unreachable"
                 /\ ParsedSome(lines[i + 1])
                 /\ ParsedDepth(lines[i + 1]) = ParsedDepth(lines[i]) + 1)
                => (outcome' = "unreachable" /\ fs' = fs)
           /\ \A e \in fs' : \A f \in fs' :
                 ~f.is_dir => ~(Len(f.path) < Len(e.path) /\ IsPrefixPath(f.path, e.path))
      ]_vars

====
